---- MODULE Spec2Model ----
(***************************************************************************)
(* Vocalite: the voice-assistant orchestration core.                       *)
(*                                                                         *)
(*   component  WebSpeechRecognition  (src/src/components/                 *)
(*              WebSpeechRecognition.tsx, and the earlier revision of the  *)
(*              same component kept in src/eslint.config.mjs 678-1416)     *)
(*   hook       useTTS                (src/eslint.config.mjs 62-596)       *)
(*   worker     tts.worker            (src/unnamed/part_005 32-151)        *)
(*   worker     whisper.worker        (src/unnamed/part_006)               *)
(*                                                                         *)
(* One action is one JavaScript task (an event handler, a timer callback, *)
(* a promise continuation) followed by the React commit it causes: the    *)
(* state setters are batched, the component re-renders and the effects    *)
(* whose dependencies changed run their cleanup and their body.           *)
(*                                                                         *)
(* Specifications: Spec mounts the current revision of the component,     *)
(* SpecEarlier the earlier one, which has the manual controls Speak       *)
(* Response, Retry TTS and Send to AI; SpecHook is the hook with its      *)
(* worker and a client of its own, SpecWorker and SpecWhisper are the two *)
(* workers on their own.                                                   *)
(*                                                                         *)
(* Left out: the debug log, the voice lists, the latency figures, the      *)
(* TextType component, and the test controls of the earlier revision      *)
(* (Test Browser TTS, Simple Test), which speak a fixed text directly      *)
(* through window.speechSynthesis.                                         *)
(***************************************************************************)
EXTENDS Integers, Sequences, FiniteSets, TLC

\* ------------------------------------------------------------------ bounds
MaxOps == 2          \* speakWithBrowser operations alive at the same time
MaxGen == 2          \* reasoning requests sent in one run
MaxOpsEarlier == 1   \* the same bound for the runs of the earlier revision
MaxGenEarlier == 2   \* reasoning requests plus uses of the manual controls in one
                     \* run of the earlier revision
MaxLen == 3          \* characters kept in the transcript
MaxMsg == 2          \* messages queued between hook and worker
MaxCalls == 4        \* synthesis invocations counted for one response
MaxRetry == 1        \* Retry TTS timers pending at the same time
MaxClicks == 1       \* uses of Speak Response, Retry TTS and Send to AI in one run
MaxInits == 2        \* INIT messages posted by a client of the hook on its own
MaxIdle == 1         \* initialize calls of that client which return at once
MaxForeign == 2      \* messages delivered that the worker of this build never posts
MaxHookCalls == 2    \* speak and stop calls of a client of the hook on its own
MaxLoads == 4        \* load messages posted to the whisper worker

\* --------------------------------------------------------------- constants
MAX_AUTO_SPEAK == 3  \* circuit breaker limit of the auto-speak timer
MAX_INIT_ATTEMPTS == 3  \* limit of initialization attempts (TTS_LOOP_FIX_SUMMARY.md)

\* ----------------------------------------------------------------- strings
\* Strings are sequences of characters; "a" stands for any non-blank one.
Chars == {"a", " "}
Empty == << >>

RECURSIVE TrimLeft(_)
TrimLeft(s) == IF s # Empty /\ Head(s) = " " THEN TrimLeft(Tail(s)) ELSE s

RECURSIVE TrimRight(_)
TrimRight(s) ==
  IF s # Empty /\ s[Len(s)] = " " THEN TrimRight(SubSeq(s, 1, Len(s) - 1)) ELSE s

\* String.prototype.trim
Trim(s) == TrimRight(TrimLeft(s))

\* JavaScript truthiness of a string
Truthy(s) == s # Empty

\* Texts the reasoning service may return (candidates[0].content.parts[0].text)
GeminiTexts == {Empty, <<" ">>, <<"a">>}
\* Transcripts of one finalized recognition result, and interim texts
FinalTexts == {Empty, <<"a">>}
InterimTexts == {Empty, <<"a">>}

\* Which revision of the component is mounted
Variants == {"current", "earlier"}

VARIABLES
  variant,            \* revision of WebSpeechRecognition that is mounted
  apiKey,             \* process.env.NEXT_PUBLIC_GEMINI_API_KEY is set
  \* ---- component state (useState)
  isRecording, transcription, interimTranscript, error,
  generatedResponse, isGenerating,
  \* ---- component refs (useRef)
  hasSpokenResponse, ttsActuallyStarted, isTTSLocked, autoSpeakAttempts,
  \* ---- component timers (setTimeout in effects and handlers)
  debounceTimer, speakTimer, clearTimer, retryTimers,
  \* ---- recognition engine and reasoning requests in flight
  recog, requests, genCount, clicks,
  \* ---- hook state (useState) and refs
  isInitialized, isLoading, isSpeaking, ttsError, useFallback,
  hookStarted, hookSpoken,
  \* ---- hook initialization timeouts, worker and its message queues
  initTimeouts, toWorker, toHook, wIsReady, wUseFallback,
  \* ---- speakWithBrowser operations and the speech-synthesis engine
  ops, synthQueue, synthSpeaking,
  \* ---- observation of the run (history)
  log,
  initLog,            \* initialization: INIT messages posted, READY messages with
                      \* the fallback flag delivered, initialize calls that returned
                      \* at once, messages of other worker builds delivered
  autoInit,           \* the autoInit option of useTTS
  heard,              \* finalized segments since the transcript was emptied,
                      \* interim text of the latest result of the session
  whisper             \* state of whisper.worker and what it has posted

vars == << variant, apiKey, isRecording, transcription, interimTranscript, error,
           generatedResponse, isGenerating, hasSpokenResponse, ttsActuallyStarted,
           isTTSLocked, autoSpeakAttempts, debounceTimer, speakTimer, clearTimer,
           retryTimers, recog, requests, genCount, clicks, isInitialized, isLoading,
           isSpeaking, ttsError, useFallback, hookStarted, hookSpoken, initTimeouts,
           toWorker, toHook, wIsReady, wUseFallback, ops, synthQueue,
           synthSpeaking, log, initLog, autoInit, heard, whisper >>

\* ------------------------------------------------------------ state record
\* The whole state as one record: a handler is a function from the state
\* before the task to the state after it; Commit (below) installs the result
\* and runs the effects.
S ==
  [ variant |-> variant, apiKey |-> apiKey,
    isRecording |-> isRecording, transcription |-> transcription,
    interimTranscript |-> interimTranscript, error |-> error,
    generatedResponse |-> generatedResponse, isGenerating |-> isGenerating,
    hasSpokenResponse |-> hasSpokenResponse, ttsActuallyStarted |-> ttsActuallyStarted,
    isTTSLocked |-> isTTSLocked, autoSpeakAttempts |-> autoSpeakAttempts,
    debounceTimer |-> debounceTimer, speakTimer |-> speakTimer,
    clearTimer |-> clearTimer, retryTimers |-> retryTimers,
    recog |-> recog, requests |-> requests, genCount |-> genCount,
    clicks |-> clicks,
    isInitialized |-> isInitialized, isLoading |-> isLoading,
    isSpeaking |-> isSpeaking, ttsError |-> ttsError, useFallback |-> useFallback,
    hookStarted |-> hookStarted, hookSpoken |-> hookSpoken,
    initTimeouts |-> initTimeouts,
    toWorker |-> toWorker, toHook |-> toHook,
    wIsReady |-> wIsReady, wUseFallback |-> wUseFallback,
    ops |-> ops, synthQueue |-> synthQueue, synthSpeaking |-> synthSpeaking,
    log |-> log, initLog |-> initLog, autoInit |-> autoInit, heard |-> heard,
    whisper |-> whisper ]

\* Nothing happened yet in the initialization of the synthesis session
NoInitLog == [inits |-> 0, readys |-> 0, idle |-> 0, foreign |-> 0]

\* No recognition result was delivered since the transcript was emptied
NoHeard == [finals |-> << >>, interim |-> Empty]

\* whisper.worker when its script has run: nothing is loaded, the runtime
\* is being compiled
NoWhisper ==
  [ isReady |-> FALSE, isModelLoading |-> FALSE, isWasmReady |-> FALSE,
    pendingModelData |-> FALSE,  \* model data waits for the runtime
    fetching |-> 0,              \* handleLoad calls waiting for their fetch
    wasmTimers |-> 0,            \* 10 s timeouts of handleLoad that are pending
    \* history
    accepted |-> 0,              \* load messages that began a load
    ignored |-> 0,               \* load messages dropped at the first test
    readys |-> 0,                \* 'ready' messages posted
    fetched |-> FALSE,           \* the data of the latest accepted load arrived
    posted |-> FALSE ]           \* 'ready' was posted since the latest accepted load

\* A timer that is not armed
TimerOff == [armed |-> FALSE, text |-> Empty, init |-> FALSE, fallback |-> FALSE]

\* A free slot of the table of speakWithBrowser operations
NoOp ==
  [ live |-> FALSE, text |-> Empty, by |-> "none", spoken |-> FALSE,
    startTimeout |-> FALSE, primerTimer |-> FALSE, finalTimer |-> FALSE,
    hasStarted |-> FALSE, hasEnded |-> FALSE, settled |-> "pending",
    stopped |-> FALSE ]   \* history: stop() was called while it was under way

OpIds == 1..(IF variant = "earlier" THEN MaxOpsEarlier ELSE MaxOps)
GenLimit == IF variant = "current" THEN MaxGen ELSE MaxGenEarlier - clicks

\* What the run has done for the response that is pending now
NoLog ==
  [ calls |-> 0,          \* synthesis invocations for the pending response
    manual |-> FALSE,     \* the Speak Response control called speak for it
    auto |-> FALSE,       \* the auto-speak timer fired for it
    autoCalls |-> 0,      \* speak invocations made by auto-speak for it
    stopped |-> FALSE ]   \* Stop Speaking or Retry TTS was used for it

\* --------------------------------------------------- speech-synthesis engine
\* window.speechSynthesis.cancel(): the queue is emptied; the utterances of
\* the hook register no onerror/onend handler, so nothing is called back.
cancel(s) == [s EXCEPT !.synthQueue = << >>, !.synthSpeaking = FALSE]

\* window.speechSynthesis.speaking || window.speechSynthesis.pending
SynthBusy(s) == s.synthQueue # << >>

\* window.speechSynthesis.speak(u)
synthSpeak(s, kind, i) ==
  [s EXCEPT !.synthQueue = Append(@, [kind |-> kind, op |-> i])]

InQueue(s, i) == \E k \in 1..Len(s.synthQueue) : s.synthQueue[k].op = i

\* ------------------------------------------------------------- useTTS hook
\* (window as any).isTTSLocked: no code of the repository assigns it, the
\* component keeps its lock in a useRef of its own.
WindowLockDefined == FALSE

\* if ((window as any).isTTSLocked) (window as any).isTTSLocked.current = false
releaseWindowLock(s) ==
  IF WindowLockDefined THEN [s EXCEPT !.isTTSLocked = FALSE] ELSE s

FreeSlots(s) == {i \in OpIds : ~s.ops[i].live}
FreeSlot(s) == CHOOSE i \in FreeSlots(s) : \A j \in FreeSlots(s) : i <= j

\* speakWithBrowser(text), the synchronous part: the promise is created and
\* startSpeech runs up to its first await; an engine that is speaking or has
\* something pending is cancelled first.
speakWithBrowser(s, text, by) ==
  LET s1 == IF SynthBusy(s) THEN cancel(s) ELSE s
      i == FreeSlot(s)
  IN [s1 EXCEPT
        !.ops[i] = [NoOp EXCEPT !.live = TRUE, !.text = text, !.by = by],
        !.log.calls = IF text = s.generatedResponse THEN @ + 1 ELSE @,
        !.log.autoCalls = IF by = "auto" /\ text = s.generatedResponse THEN @ + 1 ELSE @]

\* startSpeech after its awaits: speechSynthesis.speak(utterance) and the
\* onset timeout (1000 ms) is armed.
speakUtterance(s, i) ==
  synthSpeak([s EXCEPT !.ops[i].spoken = TRUE, !.ops[i].startTimeout = TRUE], "utt", i)

\* utterance.onstart
utteranceOnStart(s, i) ==
  [s EXCEPT !.ops[i].hasStarted = TRUE, !.ops[i].startTimeout = FALSE,
            !.isSpeaking = TRUE, !.hookStarted = TRUE, !.hookSpoken = TRUE]

\* the onset timeout callback: cancel, then the primer (100 ms) and the final
\* timeout (3000 ms) are armed
startTimeoutFired(s, i) ==
  LET s1 == [s EXCEPT !.ops[i].startTimeout = FALSE]
  IN IF ~s.ops[i].hasStarted /\ ~s.ops[i].hasEnded
       THEN [cancel(s1) EXCEPT !.ops[i].primerTimer = TRUE, !.ops[i].finalTimer = TRUE]
       ELSE s1

\* forceSpeechStart: the primer utterance is spoken
forceSpeechStart(s, i) == synthSpeak([s EXCEPT !.ops[i].primerTimer = FALSE], "primer", i)

\* primer.onend: the real utterance is spoken
primerOnEnd(s, i) == synthSpeak(s, "utt", i)

\* Mutant of the settlement: the message of the error is not looked at, a
\* rejection with "interrupted" or "canceled" is reported like any other
settle_NoClassification(s, i, how) ==
  LET s1 == [s EXCEPT !.ops[i].settled = how]
      s2 == IF how \in {"rejected", "interrupted"}
              THEN [s1 EXCEPT !.isSpeaking = IF s.ops[i].by = "worker" THEN @ ELSE FALSE,
                              !.ttsError = "TTS error"]
              ELSE s1
  IN IF s.ops[i].by = "worker" THEN s2 ELSE releaseWindowLock(s2)

\* the promise of speakWithBrowser settles: .catch and .finally of speak
\* (the SPEAK_REQUEST path has a .catch only). `how` is "resolved",
\* "rejected", or "interrupted" for a rejection whose message holds
\* "interrupted" or "canceled".
settle(s, i, how) ==
  LET s1 == [s EXCEPT !.ops[i].settled = how]
      s2 == IF how = "rejected"
              THEN [s1 EXCEPT !.isSpeaking = IF s.ops[i].by = "worker" THEN @ ELSE FALSE,
                              !.ttsError = "TTS error"]
            ELSE IF how = "interrupted"
              THEN [s1 EXCEPT !.isSpeaking = IF s.ops[i].by = "worker" THEN @ ELSE FALSE]
              ELSE s1
  IN IF s.ops[i].by = "worker" THEN s2 ELSE releaseWindowLock(s2)

\* startSpeech after its awaits when speechSynthesis.speak(utterance) throws:
\* the catch block of startSpeech, then the settlement
speakThrows(s, i, how) ==
  settle([s EXCEPT !.ops[i].spoken = TRUE, !.isSpeaking = FALSE], i, how)

\* the final timeout callback
finalTimeoutFired(s, i) ==
  LET s1 == [s EXCEPT !.ops[i].finalTimer = FALSE]
  IN IF ~s.ops[i].hasStarted /\ ~s.ops[i].hasEnded
       THEN settle(releaseWindowLock([s1 EXCEPT !.ops[i].hasEnded = TRUE,
                                                !.isSpeaking = FALSE]), i, "resolved")
       ELSE s1

\* Mutant of useTTS.speak: isInitialized is not tested
speak_NoInitTest(s, text, cSpeaking, cInit, cFallback, by) ==
  IF cSpeaking THEN s
  ELSE IF cFallback
    THEN speakWithBrowser([s EXCEPT !.ttsError = "null", !.isSpeaking = TRUE], text, by)
    ELSE [s EXCEPT !.ttsError = "null", !.isSpeaking = TRUE,
                   !.toWorker = Append(@, [type |-> "SPEAK", text |-> text]),
                   !.log.calls = IF text = s.generatedResponse THEN @ + 1 ELSE @,
                   !.log.autoCalls =
                      IF by = "auto" /\ text = s.generatedResponse THEN @ + 1 ELSE @]

\* Mutant of useTTS.speak: useFallback is not tested, the text always goes to
\* the worker
speak_AlwaysWorker(s, text, cSpeaking, cInit, cFallback, by) ==
  IF cSpeaking THEN s
  ELSE IF ~cInit THEN [s EXCEPT !.ttsError = "TTS not initialized"]
  ELSE [s EXCEPT !.ttsError = "null", !.isSpeaking = TRUE,
                 !.toWorker = Append(@, [type |-> "SPEAK", text |-> text]),
                 !.log.calls = IF text = s.generatedResponse THEN @ + 1 ELSE @,
                 !.log.autoCalls =
                    IF by = "auto" /\ text = s.generatedResponse THEN @ + 1 ELSE @]

\* useTTS.speak, called with the values its closure captured
speak(s, text, cSpeaking, cInit, cFallback, by) ==
  IF cSpeaking THEN s
  ELSE IF ~cInit THEN [s EXCEPT !.ttsError = "TTS not initialized"]
  ELSE IF cFallback
    THEN speakWithBrowser([s EXCEPT !.ttsError = "null", !.isSpeaking = TRUE], text, by)
    ELSE [s EXCEPT !.ttsError = "null", !.isSpeaking = TRUE,
                   !.toWorker = Append(@, [type |-> "SPEAK", text |-> text]),
                   !.log.calls = IF text = s.generatedResponse THEN @ + 1 ELSE @,
                   !.log.autoCalls =
                      IF by = "auto" /\ text = s.generatedResponse THEN @ + 1 ELSE @]

\* speak would start a synthesis (used to keep the tables within their bounds)
SpeakStarts(cSpeaking, cInit) == ~cSpeaking /\ cInit

\* The operations under way are marked: stop() was called for them
Stopped(s) ==
  [i \in OpIds |-> IF s.ops[i].live /\ s.ops[i].settled = "pending"
                     THEN [s.ops[i] EXCEPT !.stopped = TRUE] ELSE s.ops[i]]

\* Mutant of useTTS.stop: cancel is called whatever the engine holds, and
\* the stop is passed on to the worker
stop_PostsStop(s) ==
  [cancel(s) EXCEPT !.isSpeaking = FALSE, !.ttsError = "null", !.log.stopped = TRUE,
                    !.ops = Stopped(s),
                    !.toWorker = Append(@, [type |-> "STOP", text |-> Empty])]

\* useTTS.stop
stop(s) ==
  [(IF SynthBusy(s) THEN cancel(s) ELSE s) EXCEPT !.isSpeaking = FALSE, !.ttsError = "null",
                                                  !.log.stopped = TRUE,
                                                  !.ops = Stopped(s)]

\* Mutant of useTTS.initialize: isInitialized is not tested
initialize_NoReadyTest(s, cInit) ==
  [s EXCEPT !.isLoading = TRUE, !.ttsError = "null",
            !.toWorker = Append(@, [type |-> "INIT", text |-> Empty]),
            !.initTimeouts = @ + 1, !.initLog.inits = @ + 1,
            !.initLog.idle = IF cInit THEN @ + 1 ELSE @]

\* useTTS.initialize(voiceId), called with the isInitialized of its closure
initialize(s, cInit) ==
  IF cInit THEN [s EXCEPT !.initLog.idle = @ + 1]
  ELSE [s EXCEPT !.isLoading = TRUE, !.ttsError = "null",
                 !.toWorker = Append(@, [type |-> "INIT", text |-> Empty]),
                 !.initTimeouts = @ + 1, !.initLog.inits = @ + 1]

\* useTTS.initialize(voiceId) when workerRef.current.postMessage throws (a
\* voiceId that cannot be cloned): the catch block
initializeThrown(s, cInit) ==
  IF cInit THEN [s EXCEPT !.initLog.idle = @ + 1]
  ELSE [s EXCEPT !.ttsError = "TTS initialization failed", !.useFallback = TRUE,
                 !.isInitialized = TRUE, !.isLoading = FALSE]

\* Mutant of the initialization timeout: the hook is marked initialized but
\* is not switched to the browser fallback
initTimeoutFired_NoFallback(s) ==
  [s EXCEPT !.initTimeouts = @ - 1, !.isInitialized = TRUE, !.isLoading = FALSE]

\* the initialization timeout (2000 ms): its closure still sees the
\* isInitialized of the call, which was false
initTimeoutFired(s) ==
  [s EXCEPT !.initTimeouts = @ - 1, !.useFallback = TRUE,
            !.isInitialized = TRUE, !.isLoading = FALSE]

\* Mutant of workerRef.current.onmessage: READY sets useFallback to the flag
\* of the message
hookOnMessage_ReadyDecides(s, msg) ==
  CASE msg.type = "READY" ->
         [s EXCEPT !.isInitialized = TRUE, !.isLoading = FALSE,
                   !.useFallback = msg.fallback,
                   !.initLog.readys = IF msg.fallback THEN @ + 1 ELSE @]
    [] msg.type = "REMOVED" -> [s EXCEPT !.isInitialized = FALSE]
    [] msg.type = "SPEAK_REQUEST" ->
         IF msg.fallback THEN speakWithBrowser(s, msg.text, "worker") ELSE s
    [] msg.type = "STOP_REQUEST" ->
         IF msg.fallback THEN [cancel([s EXCEPT !.ttsError = "null"]) EXCEPT !.isSpeaking = FALSE]
         ELSE s
    [] msg.type = "ERROR" -> [s EXCEPT !.ttsError = "worker error", !.isSpeaking = FALSE]
    [] OTHER -> s

\* workerRef.current.onmessage
hookOnMessage(s, msg) ==
  CASE msg.type = "READY" ->
         [s EXCEPT !.isInitialized = TRUE, !.isLoading = FALSE,
                   !.useFallback = IF msg.fallback THEN TRUE ELSE @,
                   !.initLog.readys = IF msg.fallback THEN @ + 1 ELSE @]
    [] msg.type = "REMOVED" -> [s EXCEPT !.isInitialized = FALSE]
    [] msg.type = "SPEAK_REQUEST" ->
         IF msg.fallback THEN speakWithBrowser(s, msg.text, "worker") ELSE s
    [] msg.type = "STOP_REQUEST" ->
         IF msg.fallback THEN [cancel([s EXCEPT !.ttsError = "null"]) EXCEPT !.isSpeaking = FALSE]
         ELSE s
    [] msg.type = "ERROR" -> [s EXCEPT !.ttsError = "worker error", !.isSpeaking = FALSE]
    [] OTHER -> s   \* VOICES, VOICE_CHANGED: the voices are not part of this model

\* ------------------------------------------------------------- tts.worker
Msg(type, text, fallback) == [type |-> type, text |-> text, fallback |-> fallback]

\* Mutant of self.onmessage of the worker: SPEAK does not test isReady
workerOnMessage_NoReadyTest(s, m) ==
  CASE m.type = "INIT" ->
         [s EXCEPT !.wUseFallback = TRUE, !.wIsReady = TRUE,
                   !.toHook = @ \o << Msg("READY", Empty, TRUE), Msg("VOICES", Empty, TRUE) >>]
    [] m.type = "SPEAK" ->
         IF Trim(m.text) = Empty
           THEN [s EXCEPT !.toHook = Append(@, Msg("ERROR", Empty, FALSE))]
           ELSE [s EXCEPT !.toHook = Append(@, Msg("SPEAK_REQUEST", Trim(m.text), TRUE))]
    [] m.type = "GET_VOICES" ->
         [s EXCEPT !.toHook = Append(@, Msg("VOICES", Empty, s.wUseFallback))]
    [] m.type = "STOP" -> [s EXCEPT !.toHook = Append(@, Msg("STOP_REQUEST", Empty, TRUE))]
    [] OTHER -> s

\* self.onmessage of the worker
workerOnMessage(s, m) ==
  CASE m.type = "INIT" ->
         [s EXCEPT !.wUseFallback = TRUE, !.wIsReady = TRUE,
                   !.toHook = @ \o << Msg("READY", Empty, TRUE), Msg("VOICES", Empty, TRUE) >>]
    [] m.type = "SPEAK" ->
         IF ~s.wIsReady THEN [s EXCEPT !.toHook = Append(@, Msg("ERROR", Empty, FALSE))]
         ELSE IF Trim(m.text) = Empty
           THEN [s EXCEPT !.toHook = Append(@, Msg("ERROR", Empty, FALSE))]
           ELSE [s EXCEPT !.toHook = Append(@, Msg("SPEAK_REQUEST", Trim(m.text), TRUE))]
    [] m.type = "GET_VOICES" ->
         [s EXCEPT !.toHook = Append(@, Msg("VOICES", Empty, s.wUseFallback))]
    [] m.type = "STOP" -> [s EXCEPT !.toHook = Append(@, Msg("STOP_REQUEST", Empty, TRUE))]
    [] OTHER -> s

\* ---------------------------------------------------------- whisper.worker
\* initializeWhisperModel(model, modelData); ok: the file is written and
\* whisper_init_from_file returns a context
initializeWhisperModel(w, ok) ==
  IF ok THEN [w EXCEPT !.isReady = TRUE, !.isModelLoading = FALSE,
                       !.readys = @ + 1, !.posted = TRUE]
  ELSE [w EXCEPT !.isModelLoading = FALSE]

\* Module.onRuntimeInitialized
onRuntimeInitialized(w, ok) ==
  LET w1 == [w EXCEPT !.isWasmReady = TRUE]
  IN IF w.pendingModelData
       THEN [initializeWhisperModel(w1, ok) EXCEPT !.pendingModelData = FALSE]
       ELSE w1

\* handleLoad({ model }) up to its first await; model: a model is named
handleLoad(w, model) ==
  IF w.isModelLoading THEN [w EXCEPT !.ignored = @ + 1]
  ELSE IF ~model THEN w
  ELSE [w EXCEPT !.isModelLoading = TRUE, !.fetching = @ + 1, !.accepted = @ + 1,
                 !.fetched = FALSE, !.posted = FALSE]

\* Mutant of handleLoad after the fetch: isWasmReady is not tested, the model
\* is initialized as soon as its data is there
modelFetched_NoWasmTest(w, fetchOk, ok) ==
  LET w1 == [w EXCEPT !.fetching = @ - 1]
  IN IF ~fetchOk THEN [w1 EXCEPT !.isModelLoading = FALSE]
     ELSE initializeWhisperModel([w1 EXCEPT !.fetched = TRUE], ok)

\* handleLoad after the fetch; fetchOk: the response is OK and its body is
\* read, otherwise the catch block
modelFetched(w, fetchOk, ok) ==
  LET w1 == [w EXCEPT !.fetching = @ - 1]
  IN IF ~fetchOk THEN [w1 EXCEPT !.isModelLoading = FALSE]
     ELSE IF w.isWasmReady
       THEN initializeWhisperModel([w1 EXCEPT !.fetched = TRUE], ok)
       ELSE [w1 EXCEPT !.fetched = TRUE, !.pendingModelData = TRUE,
                       !.wasmTimers = @ + 1]

\* the 10 s timeout armed by handleLoad when the runtime was not ready
wasmTimeoutFired(w) ==
  LET w1 == [w EXCEPT !.wasmTimers = @ - 1]
  IN IF ~w.isWasmReady /\ w.pendingModelData
       THEN [w1 EXCEPT !.isModelLoading = FALSE, !.pendingModelData = FALSE]
       ELSE w1

\* ------------------------------------------------- recognition engine calls
\* recognition.start(): throws when the session is not idle
recognitionStart(s) ==
  IF s.recog = "idle" THEN [s EXCEPT !.recog = "starting"]
  ELSE [s EXCEPT !.error = "Failed to start recording"]

\* recognition.stop(): the end event follows
recognitionStop(s) ==
  IF s.recog \in {"starting", "active"} THEN [s EXCEPT !.recog = "stopping"] ELSE s

\* --------------------------------------------- WebSpeechRecognition handlers
\* sendToGemini up to its await, called with the values its closure captured
sendToGemini(s, cTranscription, cIsRecording, cInit) ==
  IF s.variant = "current" /\ ~s.apiKey
    THEN [s EXCEPT !.error = "Gemini API key not configured"]
  ELSE IF ~cInit THEN s
  ELSE LET s1 == IF cIsRecording THEN recognitionStop(s) ELSE s
       IN IF ~Truthy(cTranscription)
            THEN [s1 EXCEPT !.error = "No transcription to send", !.isGenerating = FALSE]
            ELSE [s1 EXCEPT !.isGenerating = TRUE, !.generatedResponse = Empty,
                            !.requests = @ + 1, !.genCount = @ + 1]

\* sendToGemini would send a request (used to keep genCount within MaxGen)
SendStarts(s, cTranscription, cInit) ==
  (s.variant = "earlier" \/ s.apiKey) /\ cInit /\ Truthy(cTranscription)

\* Mutant of sendToGemini after the fetch: no finally block, isGenerating is
\* reset only where a text was received
geminiResponded_NoFinally(s, ok, text) ==
  LET s1 == [s EXCEPT !.requests = @ - 1]
  IN IF ok /\ Truthy(text)
       THEN [s1 EXCEPT !.generatedResponse = text, !.isGenerating = FALSE]
       ELSE [s1 EXCEPT !.error = "Failed to generate response"]

\* sendToGemini after the fetch: the response, the catch and the finally
geminiResponded(s, ok, text) ==
  LET s1 == [s EXCEPT !.requests = @ - 1, !.isGenerating = FALSE]
  IN IF ok /\ Truthy(text) THEN [s1 EXCEPT !.generatedResponse = text]
     ELSE [s1 EXCEPT !.error = "Failed to generate response"]

\* recognition.onstart
recognitionOnStart(s) == [s EXCEPT !.recog = "active", !.isRecording = TRUE, !.error = ""]

\* recognition.onresult for an event with the finalized results `finals`
\* (a sequence of transcripts) and the interim text `interim`
RECURSIVE FinalTranscript(_)
FinalTranscript(finals) ==
  IF finals = << >> THEN Empty
  ELSE Head(finals) \o <<" ">> \o FinalTranscript(Tail(finals))

\* the event is entered in the history of the results
Heard(s, finals, interim) ==
  [s EXCEPT !.heard = [finals |-> @.finals \o finals, interim |-> interim]]

\* Mutant of recognition.onresult: the interim text is entered in the
\* transcript as well
recognitionOnResult_InterimKept(s, finals, interim) ==
  LET finalTranscript == FinalTranscript(finals) \o interim
      s1 == IF Truthy(finalTranscript)
              THEN LET s2 == [s EXCEPT !.transcription = @ \o finalTranscript]
                   IN IF s.variant = "current"
                        THEN sendToGemini([s2 EXCEPT !.isTTSLocked = FALSE],
                                          Empty, FALSE, FALSE)
                        ELSE s2
              ELSE s
  IN Heard([s1 EXCEPT !.interimTranscript = interim], finals, interim)

recognitionOnResult(s, finals, interim) ==
  LET finalTranscript == FinalTranscript(finals)
      s1 == IF Truthy(finalTranscript)
              THEN LET s2 == [s EXCEPT !.transcription = @ \o finalTranscript]
                   IN IF s.variant = "current"
                        \* sendToGemini of the mount effect's closure (first render)
                        THEN sendToGemini([s2 EXCEPT !.isTTSLocked = FALSE],
                                          Empty, FALSE, FALSE)
                        ELSE s2
              ELSE s
  IN Heard([s1 EXCEPT !.interimTranscript = interim], finals, interim)

\* Mutant of recognition.onerror: the error is stored, the recording state is
\* left to the end event
recognitionOnError_KeepsRecording(s) ==
  [s EXCEPT !.error = "Speech recognition error", !.recog = "stopping"]

\* recognition.onerror (the end event follows)
recognitionOnError(s) ==
  [s EXCEPT !.error = "Speech recognition error", !.isRecording = FALSE,
            !.recog = "stopping"]

\* Mutant of recognition.onend: the end of the stream is taken for the end
\* of the turn, the transcript is emptied as well
recognitionOnEnd_ClearsTranscript(s) ==
  [s EXCEPT !.recog = "idle", !.isRecording = FALSE, !.interimTranscript = Empty,
            !.transcription = Empty, !.heard = NoHeard]

\* recognition.onend
recognitionOnEnd(s) ==
  [s EXCEPT !.recog = "idle", !.isRecording = FALSE, !.interimTranscript = Empty,
            !.heard.interim = Empty]

\* startRecording
startRecording(s) ==
  IF s.isRecording THEN s
  ELSE IF s.variant = "current"
    THEN recognitionStart([s EXCEPT !.isTTSLocked = FALSE])
    ELSE recognitionStart([s EXCEPT !.transcription = Empty, !.interimTranscript = Empty,
                                    !.error = "", !.isGenerating = FALSE,
                                    !.heard = NoHeard])

\* stopRecording
stopRecording(s) == IF s.isRecording THEN recognitionStop(s) ELSE s

\* Mutant of clearTranscription: the speech in flight is not stopped
clearTranscription_NoStop(s) ==
  [s EXCEPT !.transcription = Empty, !.interimTranscript = Empty,
            !.generatedResponse = Empty, !.error = "", !.heard = NoHeard]

\* clearTranscription
clearTranscription(s) ==
  LET s1 == [s EXCEPT !.transcription = Empty, !.interimTranscript = Empty,
                      !.generatedResponse = Empty, !.error = "", !.heard = NoHeard]
  IN IF s.variant = "current" THEN stop(s1) ELSE s1

\* Mutant of the auto-speak timer callback: the lock is not tested
autoSpeakTimerFired_NoLockCheck(s) ==
  LET s0 == [s EXCEPT !.speakTimer = TimerOff, !.log.auto = TRUE]
  IN IF s.autoSpeakAttempts >= MAX_AUTO_SPEAK
       THEN [s0 EXCEPT !.hasSpokenResponse = TRUE, !.isTTSLocked = FALSE]
     ELSE speak([s0 EXCEPT !.autoSpeakAttempts = @ + 1, !.isTTSLocked = TRUE,
                           !.ttsActuallyStarted = FALSE, !.hasSpokenResponse = TRUE],
                s.speakTimer.text, FALSE, TRUE, s.speakTimer.fallback, "auto")

\* Mutant of the auto-speak timer callback: every firing is an attempt; the
\* circuit breaker and the lock are not tested, the response is not marked
autoSpeakTimerFired_Unbounded(s) ==
  speak([s EXCEPT !.speakTimer = TimerOff, !.log.auto = TRUE,
                  !.autoSpeakAttempts = @ + 1, !.isTTSLocked = TRUE,
                  !.ttsActuallyStarted = FALSE],
        s.speakTimer.text, FALSE, TRUE, s.speakTimer.fallback, "auto")

\* the auto-speak timer callback (300 ms after the effect armed it)
autoSpeakTimerFired(s) ==
  LET s0 == [s EXCEPT !.speakTimer = TimerOff, !.log.auto = TRUE]
  IN IF s.autoSpeakAttempts >= MAX_AUTO_SPEAK
       THEN [s0 EXCEPT !.hasSpokenResponse = TRUE, !.isTTSLocked = FALSE]
     ELSE IF s.isTTSLocked THEN s0
     ELSE speak([s0 EXCEPT !.autoSpeakAttempts = @ + 1, !.isTTSLocked = TRUE,
                           !.ttsActuallyStarted = FALSE, !.hasSpokenResponse = TRUE],
                s.speakTimer.text, FALSE, TRUE, s.speakTimer.fallback, "auto")

\* the clear-after-speaking timer callback (1000 ms)
clearTimerFired(s) ==
  [s EXCEPT !.clearTimer = TimerOff, !.generatedResponse = Empty,
            !.hasSpokenResponse = FALSE, !.ttsActuallyStarted = FALSE]

\* the debounce timer callback (2000 ms)
debounceTimerFired(s) ==
  sendToGemini([s EXCEPT !.debounceTimer = TimerOff],
               s.debounceTimer.text, s.isRecording, s.debounceTimer.init)

\* the mount timer of the manual TTS initialization effect (1000 ms)
mountInitTimerFired(s) == initialize(s, s.isInitialized)

\* Speak Response control (earlier revision)
speakResponseClick(s) ==
  speak([s EXCEPT !.log.manual = TRUE], s.generatedResponse,
        s.isSpeaking, s.isInitialized, s.useFallback, "manual")

\* Retry TTS control (earlier revision)
retryClick(s) ==
  LET s1 == [cancel(s) EXCEPT !.hasSpokenResponse = FALSE, !.autoSpeakAttempts = 0,
                              !.isTTSLocked = FALSE, !.log.stopped = TRUE]
  IN IF Truthy(s.generatedResponse)
       THEN [s1 EXCEPT !.retryTimers =
               Append(@, [text |-> s.generatedResponse, speaking |-> s.isSpeaking,
                          init |-> s.isInitialized, fallback |-> s.useFallback])]
       ELSE s1

\* the timer of Retry TTS (300 ms): speak of the render of the click
retryTimerFired(s) ==
  LET c == Head(s.retryTimers)
  IN speak([s EXCEPT !.retryTimers = Tail(@)], c.text, c.speaking, c.init, c.fallback, "retry")

\* Send to AI control (earlier revision)
sendToAIClick(s) == sendToGemini(s, s.transcription, s.isRecording, s.isInitialized)

\* ------------------------------------------------------------------ effects
NonBlank(str) == Truthy(str) /\ Len(Trim(str)) > 0

\* Mutant of the dependencies of the debounce effect: a new final segment
\* does not restart the timer
DebounceDeps_NoTranscript(s) ==
  << s.isRecording, s.isGenerating, s.generatedResponse, s.isInitialized >>

\* Mutant of the dependencies of the debounce effect: the end of the
\* recording does not run the cleanup of the effect
DebounceDeps_NoRecording(s) ==
  << s.transcription, s.isGenerating, s.generatedResponse, s.isInitialized >>

\* debounce effect: dependencies and condition
DebounceDeps(s) ==
  IF s.variant = "current"
    THEN << s.transcription, s.isRecording, s.isGenerating, s.generatedResponse,
            s.isInitialized >>   \* sendToGemini changes with ttsInitialized
    ELSE << s.transcription, s.isRecording, s.isGenerating, s.generatedResponse >>

DebounceCond(s) ==
  s.isRecording /\ Len(Trim(s.transcription)) > 0 /\ ~s.isGenerating
  /\ ~Truthy(s.generatedResponse)

\* Mutant of the condition of the auto-speak effect: the mark "already
\* spoken" is not tested when the timer is armed
AutoSpeakCond_NoSpokenTest(s) ==
  NonBlank(s.generatedResponse) /\ s.isInitialized /\ ~s.isSpeaking

\* auto-speak effect: dependencies and condition
AutoSpeakDeps(s) ==
  IF s.variant = "current"
    THEN << s.generatedResponse, s.isInitialized, s.isSpeaking, s.useFallback >>
    ELSE << s.generatedResponse, s.isInitialized, s.isSpeaking >>

AutoSpeakCond(s) ==
  NonBlank(s.generatedResponse) /\ s.isInitialized /\ ~s.isSpeaking
  /\ ~s.hasSpokenResponse

\* Mutant of the condition of the clear-after-speaking effect: the flag that
\* tells "speech began" from "speak was invoked" is not tested
ClearCond_NoStartedTest(s) ==
  ~s.isSpeaking /\ NonBlank(s.generatedResponse) /\ s.hasSpokenResponse

\* clear-after-speaking effect: dependencies and condition
ClearDeps(s) == << s.isSpeaking, s.generatedResponse >>

ClearCond(s) ==
  ~s.isSpeaking /\ NonBlank(s.generatedResponse) /\ s.hasSpokenResponse
  /\ s.ttsActuallyStarted

\* A speakWithBrowser operation that can do nothing any more: its utterance
\* was handed to the engine, no timer of it is pending and the engine holds
\* nothing of it. Its slot is free again.
Inert(s, i) ==
  /\ s.ops[i].live /\ s.ops[i].spoken
  /\ ~s.ops[i].startTimeout /\ ~s.ops[i].primerTimer /\ ~s.ops[i].finalTimer
  /\ ~InQueue(s, i)

\* The hook is initialized in fallback mode and not loading. No code path
\* leaves this state: REMOVED is never posted by the worker and changeVoice
\* is not returned by the hook.
SettledInit(s) == s.isInitialized /\ s.useFallback /\ ~s.isLoading

\* A message to the hook whose handler changes nothing: VOICES with the
\* fallback flag, and READY with the fallback flag once the hook is settled.
NoEffect(s, msg) ==
  \/ msg.type = "VOICES"
  \/ msg.type = "READY" /\ msg.fallback /\ SettledInit(s)

RECURSIVE Effective(_, _)
Effective(s, q) ==
  IF q = << >> THEN << >>
  ELSE IF NoEffect(s, Head(q)) THEN Effective(s, Tail(q))
  ELSE << Head(q) >> \o Effective(s, Tail(q))

\* READY messages with the fallback flag in a queue
Readys(q) ==
  Cardinality({k \in 1..Len(q) : q[k].type = "READY" /\ q[k].fallback})

\* The commit after a task: o is the state of the previous render, h the
\* state the task left. The effects run in the order of their declaration.
effects(o, h) ==
  LET newResp == h.generatedResponse # o.generatedResponse
  IN [h EXCEPT
       !.debounceTimer =
          IF DebounceDeps(h) # DebounceDeps(o)
            THEN IF DebounceCond(h)
                   THEN [TimerOff EXCEPT !.armed = TRUE, !.text = h.transcription,
                                         !.init = h.isInitialized]
                   ELSE TimerOff
            ELSE @,
       !.speakTimer =
          IF AutoSpeakDeps(h) # AutoSpeakDeps(o)
            THEN IF AutoSpeakCond(h)
                   THEN [TimerOff EXCEPT !.armed = TRUE, !.text = h.generatedResponse,
                                         !.fallback = h.useFallback]
                   ELSE TimerOff
            ELSE @,
       !.clearTimer =
          IF ClearDeps(h) # ClearDeps(o)
            THEN IF ClearCond(h) THEN [TimerOff EXCEPT !.armed = TRUE] ELSE TimerOff
            ELSE @,
       \* reset effect on isGenerating
       !.hasSpokenResponse = IF h.isGenerating # o.isGenerating /\ h.isGenerating THEN FALSE ELSE @,
       !.autoSpeakAttempts = IF h.isGenerating # o.isGenerating /\ h.isGenerating THEN 0 ELSE @,
       !.log = IF newResp THEN NoLog ELSE @,
       \* (the client of the hook on its own makes MaxHookCalls calls: no slot
       \* is needed twice, the finished operations stay in the table)
       !.ops = [i \in OpIds |-> IF h.variant \in Variants /\ Inert(h, i) THEN NoOp
                                ELSE h.ops[i]],
       \* tasks that are pending and can change nothing any more are dropped:
       \* an initialization timeout of a settled hook sets the values it has
       \* (the hook on its own may leave the settled state: nothing is dropped)
       !.initTimeouts = IF h.variant \in Variants /\ SettledInit(h) THEN 0 ELSE @,
       !.toHook = IF h.variant \in Variants THEN Effective(h, h.toHook) ELSE @,
       !.initLog.readys =
          IF h.variant \in Variants
            THEN @ + Readys(h.toHook) - Readys(Effective(h, h.toHook))
            ELSE @ ]

Install(n) ==
  /\ variant' = n.variant /\ apiKey' = n.apiKey
  /\ isRecording' = n.isRecording /\ transcription' = n.transcription
  /\ interimTranscript' = n.interimTranscript /\ error' = n.error
  /\ generatedResponse' = n.generatedResponse /\ isGenerating' = n.isGenerating
  /\ hasSpokenResponse' = n.hasSpokenResponse /\ ttsActuallyStarted' = n.ttsActuallyStarted
  /\ isTTSLocked' = n.isTTSLocked /\ autoSpeakAttempts' = n.autoSpeakAttempts
  /\ debounceTimer' = n.debounceTimer /\ speakTimer' = n.speakTimer
  /\ clearTimer' = n.clearTimer /\ retryTimers' = n.retryTimers
  /\ recog' = n.recog /\ requests' = n.requests /\ genCount' = n.genCount
  /\ clicks' = n.clicks
  /\ isInitialized' = n.isInitialized /\ isLoading' = n.isLoading
  /\ isSpeaking' = n.isSpeaking /\ ttsError' = n.ttsError /\ useFallback' = n.useFallback
  /\ hookStarted' = n.hookStarted /\ hookSpoken' = n.hookSpoken
  /\ initTimeouts' = n.initTimeouts
  /\ toWorker' = n.toWorker /\ toHook' = n.toHook
  /\ wIsReady' = n.wIsReady /\ wUseFallback' = n.wUseFallback
  /\ ops' = n.ops /\ synthQueue' = n.synthQueue /\ synthSpeaking' = n.synthSpeaking
  /\ log' = n.log /\ heard' = n.heard
  /\ initLog' = n.initLog /\ autoInit' = n.autoInit
  /\ whisper' = n.whisper

\* A task that left the state h, and the commit after it
Commit(h) == Install(effects(S, h))

\* The state a task starts from
S0 == S

\* -------------------------------------------------------------------- Init
\* The state after the component is mounted; v is its revision. The earlier
\* revision does not test the API key.
Mounted(v) ==
  /\ variant = v
  /\ apiKey \in (IF v = "current" THEN BOOLEAN ELSE {TRUE})
  /\ autoInit \in (IF v = "hook" THEN BOOLEAN ELSE {FALSE})
  /\ isRecording = FALSE /\ transcription = Empty /\ interimTranscript = Empty
  /\ error = "" /\ generatedResponse = Empty /\ isGenerating = FALSE
  /\ hasSpokenResponse = FALSE /\ ttsActuallyStarted = FALSE
  /\ isTTSLocked = FALSE /\ autoSpeakAttempts = 0
  /\ debounceTimer = TimerOff /\ speakTimer = TimerOff /\ clearTimer = TimerOff
  /\ retryTimers = << >>
  /\ recog = "idle" /\ requests = 0 /\ genCount = 0 /\ clicks = 0
  /\ isInitialized = FALSE /\ isLoading = FALSE /\ isSpeaking = FALSE
  /\ ttsError = "null" /\ useFallback = FALSE
  /\ hookStarted = FALSE /\ hookSpoken = FALSE
  /\ initTimeouts = 0 /\ toHook = << >>
  \* the worker effect of the hook posts INIT when autoInit is set
  /\ toWorker = (IF autoInit THEN << [type |-> "INIT", text |-> Empty] >> ELSE << >>)
  /\ initLog = [NoInitLog EXCEPT !.inits = IF autoInit THEN 1 ELSE 0]
  /\ wIsReady = FALSE /\ wUseFallback = FALSE
  /\ ops = [i \in OpIds |-> NoOp] /\ synthQueue = << >> /\ synthSpeaking = FALSE
  /\ log = NoLog /\ heard = NoHeard
  /\ whisper = NoWhisper

\* ----------------------------------------------------------------- actions
\* A manual control of the earlier revision may be used
CanClick == clicks < MaxClicks /\ genCount + clicks < MaxGenEarlier

\* A synthesis may be started: a slot is free and the count is within bounds
CanSpeak == FreeSlots(S) # {} /\ log.calls < MaxCalls /\ Len(toWorker) < MaxMsg

\* initializeTTS of the mount effect: the timer is re-armed by every render
\* while TTS is neither initialized nor loading
MountInitTimer ==
  /\ ~isInitialized /\ ~isLoading
  /\ Len(toWorker) < MaxMsg
  /\ Commit(mountInitTimerFired(S0))

InitTimeout ==
  /\ initTimeouts > 0
  /\ Commit(initTimeoutFired(S0))

WorkerTask ==
  /\ toWorker # << >>
  /\ Len(toHook) + 2 <= MaxMsg
  /\ Commit(workerOnMessage([S0 EXCEPT !.toWorker = Tail(@)], Head(toWorker)))

HookMessage ==
  /\ toHook # << >>
  /\ Head(toHook).type = "SPEAK_REQUEST" => FreeSlots(S) # {}
  /\ Commit(hookOnMessage([S0 EXCEPT !.toHook = Tail(@)], Head(toHook)))

StartRecordingClick ==
  /\ ~isRecording
  /\ Commit(startRecording(S0))

StopRecordingClick ==
  /\ isRecording
  /\ Commit(stopRecording(S0))

RecognitionStarted ==
  /\ recog = "starting"
  /\ Commit(recognitionOnStart(S0))

RecognitionResult ==
  /\ recog \in {"active", "stopping"}
  /\ \E finals \in {<< >>} \cup {<<f>> : f \in FinalTexts}, interim \in InterimTexts :
       /\ Len(transcription) + Len(FinalTranscript(finals)) <= MaxLen
       /\ finals # << >> \/ interim # interimTranscript
       /\ Commit(recognitionOnResult(S0, finals, interim))

RecognitionError ==
  /\ recog \in {"starting", "active"}
  /\ Commit(recognitionOnError(S0))

RecognitionEnded ==
  /\ recog \in {"active", "stopping"}
  /\ Commit(recognitionOnEnd(S0))

ClearClick ==
  /\ variant = "current" => Truthy(generatedResponse)
  /\ Commit(clearTranscription(S0))

StopSpeakingClick ==
  /\ isSpeaking
  /\ variant = "earlier" => synthSpeaking
  /\ Commit(stop(S0))

\* The auto-speak timer fires
AutoSpeakTimer ==
  /\ speakTimer.armed
  /\ CanSpeak
  /\ Commit(autoSpeakTimerFired(S0))

\* A timer armed by an effect of the component fires
EffectTimer ==
  \E t \in {"debounce", "speak", "clear"} :
     CASE t = "debounce" ->
            /\ debounceTimer.armed
            /\ SendStarts(S, debounceTimer.text, debounceTimer.init) => genCount < GenLimit
            /\ Commit(debounceTimerFired(S0))
       [] t = "speak" -> AutoSpeakTimer
       [] t = "clear" ->
            /\ clearTimer.armed
            /\ Commit(clearTimerFired(S0))

GeminiResponse ==
  /\ requests > 0
  /\ \E ok \in BOOLEAN, text \in GeminiTexts :
       /\ ~ok => text = Empty
       /\ Commit(geminiResponded(S0, ok, text))

SpeakResponseClick ==
  /\ variant = "earlier"
  /\ Truthy(generatedResponse) /\ isInitialized
  /\ CanSpeak /\ CanClick
  /\ Commit(speakResponseClick([S0 EXCEPT !.clicks = @ + 1]))

RetryClick ==
  /\ variant = "earlier"
  /\ Truthy(generatedResponse)
  /\ Len(retryTimers) < MaxRetry /\ CanClick
  /\ Commit(retryClick([S0 EXCEPT !.clicks = @ + 1]))

RetryTimer ==
  /\ retryTimers # << >>
  /\ CanSpeak
  /\ Commit(retryTimerFired(S0))

SendToAIClick ==
  /\ variant = "earlier"
  /\ Truthy(transcription) /\ ~isGenerating
  /\ SendStarts(S, transcription, isInitialized) => genCount + 1 < GenLimit
  /\ CanClick
  /\ Commit(sendToAIClick([S0 EXCEPT !.clicks = @ + 1]))

\* startSpeech of operation i reaches speechSynthesis.speak(utterance)
OpSpeakUtterance ==
  \E i \in OpIds :
     /\ ops[i].live /\ ~ops[i].spoken
     /\ Commit(speakUtterance(S0, i))

OpStartTimeout ==
  \E i \in OpIds :
     /\ ops[i].startTimeout
     /\ Commit(startTimeoutFired(S0, i))

OpPrimerTimer ==
  \E i \in OpIds :
     /\ ops[i].primerTimer
     /\ Commit(forceSpeechStart(S0, i))

\* the final timeout (3000 ms) fires after the primer timer (100 ms)
OpFinalTimeout ==
  \E i \in OpIds :
     /\ ops[i].finalTimer /\ ~ops[i].primerTimer
     /\ Commit(finalTimeoutFired(S0, i))

\* The engine begins to speak the utterance at the head of its queue
EngineStart ==
  /\ synthQueue # << >> /\ ~synthSpeaking
  /\ LET u == Head(synthQueue)
         s1 == [S0 EXCEPT !.synthSpeaking = TRUE]
     IN Commit(IF u.kind = "utt" THEN utteranceOnStart(s1, u.op) ELSE s1)

\* The engine finishes the utterance it is speaking
EngineEnd ==
  /\ synthQueue # << >> /\ synthSpeaking
  /\ LET u == Head(synthQueue)
         s1 == [S0 EXCEPT !.synthQueue = Tail(@), !.synthSpeaking = FALSE]
     IN Commit(IF u.kind = "primer" THEN primerOnEnd(s1, u.op) ELSE s1)

\* The engine gives up the utterance at the head of its queue with an error
\* event, for which no handler is registered
EngineError ==
  /\ synthQueue # << >>
  /\ Commit([S0 EXCEPT !.synthQueue = Tail(@), !.synthSpeaking = FALSE])

\* Tasks of both revisions of the component, of the hook, the worker and the
\* engines
Shared ==
  \/ MountInitTimer \/ InitTimeout \/ WorkerTask \/ HookMessage
  \/ StartRecordingClick \/ StopRecordingClick
  \/ RecognitionStarted \/ RecognitionResult \/ RecognitionError \/ RecognitionEnded
  \/ ClearClick \/ StopSpeakingClick \/ EffectTimer \/ GeminiResponse
  \/ OpSpeakUtterance \/ OpStartTimeout \/ OpPrimerTimer \/ OpFinalTimeout
  \/ EngineStart \/ EngineEnd \/ EngineError

\* src/src/components/WebSpeechRecognition.tsx
Init == Mounted("current")
Next == Shared
Spec == Init /\ [][Next]_vars

\* the earlier revision (src/eslint.config.mjs 678-1416), with its controls
InitEarlier == Mounted("earlier")
NextEarlier == Shared \/ SpeakResponseClick \/ RetryClick \/ RetryTimer \/ SendToAIClick
SpecEarlier == InitEarlier /\ [][NextEarlier]_vars

\* The hook on its own (src/eslint.config.mjs 33-596) with its worker: a
\* client calls initialize, speak and stop of the latest render at any time,
\* and the handler of the worker's messages also gets the messages of its
\* type that are never posted in this build (those of a worker with the
\* synthesis model, and STOP_REQUEST, the worker's answer to a STOP that
\* nothing posts). changeVoice is not returned by the hook and has no caller.
HookInitialize ==
  /\ Len(toWorker) < MaxMsg
  /\ IF isInitialized THEN initLog.idle < MaxIdle ELSE initLog.inits < MaxInits
  /\ \E throws \in BOOLEAN :
       Commit(IF throws THEN initializeThrown(S0, isInitialized)
                        ELSE initialize(S0, isInitialized))

ForeignMessage ==
  /\ initLog.foreign < MaxForeign
  /\ \E msg \in {Msg("READY", Empty, FALSE), Msg("VOICES", Empty, FALSE),
                  Msg("VOICE_CHANGED", Empty, FALSE), Msg("REMOVED", Empty, FALSE)} :
       Commit(hookOnMessage([S0 EXCEPT !.initLog.foreign = @ + 1], msg))

\* STOP_REQUEST with the fallback flag is delivered
StopRequestMessage ==
  /\ initLog.foreign < MaxForeign
  /\ Commit(hookOnMessage([S0 EXCEPT !.initLog.foreign = @ + 1],
                          Msg("STOP_REQUEST", Empty, TRUE)))

\* the client calls speak(text) of the latest render
HookSpeak ==
  /\ clicks < MaxHookCalls
  /\ FreeSlots(S) # {} /\ Len(toWorker) < MaxMsg
  /\ Commit(speak([S0 EXCEPT !.clicks = @ + 1], <<"a">>,
                  isSpeaking, isInitialized, useFallback, "client"))

\* the client calls stop()
HookStop ==
  /\ clicks < MaxHookCalls
  /\ Commit(stop([S0 EXCEPT !.clicks = @ + 1]))

\* startSpeech of operation i: speechSynthesis.speak(utterance) throws
OpSpeakThrows ==
  \E i \in OpIds, how \in {"rejected", "interrupted"} :
     /\ ops[i].live /\ ~ops[i].spoken
     /\ Commit(speakThrows(S0, i, how))

InitHook == Mounted("hook")
NextHook ==
  \/ HookInitialize \/ InitTimeout \/ WorkerTask \/ HookMessage \/ ForeignMessage
  \/ StopRequestMessage \/ HookSpeak \/ HookStop
  \/ OpSpeakUtterance \/ OpSpeakThrows
  \/ OpStartTimeout \/ OpPrimerTimer \/ OpFinalTimeout
  \/ EngineStart \/ EngineEnd \/ EngineError
SpecHook == InitHook /\ [][NextHook]_vars

\* The worker on its own (src/unnamed/part_005 32-151): a client posts the
\* messages of its protocol in any order, with any text, and takes its answers.
SpeakTexts == {Empty, <<" ">>, <<"a">>, <<" ", "a">>}

WorkerInputs ==
  {[type |-> t, text |-> Empty] : t \in {"INIT", "GET_VOICES", "STOP"}}
    \cup {[type |-> "SPEAK", text |-> t] : t \in SpeakTexts}

\* worker.postMessage(m) of the client
ClientPost ==
  /\ Len(toWorker) < MaxMsg
  /\ \E m \in WorkerInputs : Commit([S0 EXCEPT !.toWorker = Append(@, m)])

\* the client takes the answer at the head of the queue
ClientReceive ==
  /\ toHook # << >>
  /\ Commit([S0 EXCEPT !.toHook = Tail(@)])

InitWorker == Mounted("worker")
NextWorker == ClientPost \/ WorkerTask \/ ClientReceive
SpecWorker == InitWorker /\ [][NextWorker]_vars

\* whisper.worker on its own (src/unnamed/part_006): the main thread posts
\* load messages at any time, the runtime is initialized at any time or
\* never. Left out: transcribe, which changes nothing of the loading state,
\* and the progress, debug and error messages.
WhisperLoad ==
  /\ whisper.accepted + whisper.ignored < MaxLoads
  /\ \E model \in BOOLEAN :
       Commit([S0 EXCEPT !.whisper = handleLoad(@, model)])

WhisperFetched ==
  /\ whisper.fetching > 0
  /\ \E fetchOk \in BOOLEAN, ok \in BOOLEAN :
       Commit([S0 EXCEPT !.whisper = modelFetched(@, fetchOk, ok)])

WhisperRuntimeInitialized ==
  /\ ~whisper.isWasmReady
  /\ \E ok \in BOOLEAN :
       Commit([S0 EXCEPT !.whisper = onRuntimeInitialized(@, ok)])

WhisperWasmTimeout ==
  /\ whisper.wasmTimers > 0
  /\ Commit([S0 EXCEPT !.whisper = wasmTimeoutFired(@)])

InitWhisper == Mounted("whisper")
NextWhisper ==
  WhisperLoad \/ WhisperFetched \/ WhisperRuntimeInitialized \/ WhisperWasmTimeout
SpecWhisper == InitWhisper /\ [][NextWhisper]_vars

\* ================================================================== claims
\* A speakWithBrowser operation started by auto-speak whose promise is pending
AutoOpPending(i) == ops[i].live /\ ops[i].by = "auto" /\ ops[i].settled = "pending"

\* C1: when the Speak Response control and the auto-speak timer are both
\* triggered for the pending response, the synthesis backend is invoked for
\* that response once, not twice (neither concurrently nor in sequence): once
\* the control has had the response spoken, and while nobody uses Stop
\* Speaking or Retry TTS, no step makes a further invocation for it.
C1_OneInvocation ==
  [][ ( /\ log.manual /\ log.calls >= 1 /\ ~log'.stopped
        /\ generatedResponse' = generatedResponse )
      => log'.calls = log.calls ]_vars

\* C2: a speak operation that holds the SpeakingLock releases it when it
\* exits (speech over, error, failure-to-start timeout, stop): the step in
\* which the only operation of auto-speak leaves the table of pending
\* operations ends with the lock released.
C2_ReleasedOnExit ==
  [][ \A i \in OpIds :
        ( /\ isTTSLocked /\ AutoOpPending(i)
          /\ \A j \in OpIds \ {i} : ~ops[j].live
          /\ ~AutoOpPending(i)' )
        => ~isTTSLocked' ]_vars

\* C3: while the speak operation that acquired the SpeakingLock is in flight
\* (pending, and not stopped), the lock is held; startRecording and a final
\* transcript segment do not release it.
C3_HeldWhileInFlight ==
  (isSpeaking /\ \E i \in OpIds : AutoOpPending(i)) => isTTSLocked

\* C4: when the auto-speak timer fires while the SpeakingLock is held, the
\* acquisition is rejected with no queuing: speak is not invoked (no operation
\* is started, nothing is posted to the worker, isSpeaking is not set) and
\* autoSpeakAttempts, hasSpokenResponse, ttsActuallyStarted and the lock are
\* left unchanged.
C4_RejectedWhenLocked ==
  [][ (isTTSLocked /\ AutoSpeakTimer)
      => /\ UNCHANGED << autoSpeakAttempts, hasSpokenResponse, ttsActuallyStarted,
                         isTTSLocked, ops, toWorker, synthQueue, isSpeaking, ttsError >>
         /\ log'.calls = log.calls ]_vars

\* the timer has fired for the pending response while the lock was held:
\* auto-speak made no invocation for it
C4_Witness ==
  /\ log.auto /\ log.autoCalls = 0 /\ isTTSLocked
  /\ Truthy(generatedResponse) /\ ~speakTimer.armed /\ ~hasSpokenResponse

\* C5: in every reachable state the number of auto-speak attempts made for
\* one Turn (autoSpeakAttempts: the speak invocations of auto-speak since the
\* counter was last reset) is at most 3.
C5_AttemptsBounded == autoSpeakAttempts <= MAX_AUTO_SPEAK

\* an attempt has been made for the pending response and its operation is over
C5_Witness ==
  /\ autoSpeakAttempts >= 1 /\ log.autoCalls >= 1
  /\ ~isSpeaking /\ \A i \in OpIds : ~ops[i].live

\* The auto-speak attempt made for the pending response has failed: the
\* engine never started an utterance, the operation is over (its final timeout
\* has fired), and neither Stop Speaking, Retry TTS nor Speak Response was used.
AttemptFailed ==
  /\ Truthy(generatedResponse) /\ log.autoCalls >= 1
  /\ ~log.stopped /\ ~log.manual /\ ~hookStarted
  /\ ~isSpeaking /\ synthQueue = << >> /\ \A i \in OpIds : ~ops[i].live

\* C6: under repeated synthesis failure for one Turn the third failed
\* auto-speak attempt is followed by a circuit-breaker trip, which marks the
\* turn spoken, releases the SpeakingLock and does not invoke speak again:
\* when the attempts for the response have failed and no further attempt is
\* scheduled, three attempts have been made, the turn is marked spoken and the
\* lock is released.
C6_BreakerTrips ==
  (AttemptFailed /\ ~speakTimer.armed)
  => (autoSpeakAttempts = MAX_AUTO_SPEAK /\ hasSpokenResponse /\ ~isTTSLocked)

\* C7: a failed auto-speak attempt is retried: while fewer than 3 attempts
\* have been made for the Turn, a failed attempt leaves the auto-speak timer
\* armed for the same pending response.
C7_FailedAttemptRetried ==
  (AttemptFailed /\ autoSpeakAttempts < MAX_AUTO_SPEAK)
  => (speakTimer.armed /\ speakTimer.text = generatedResponse)

\* C8: for a Turn whose transcript was sent after the debounce interval and
\* whose reasoning call returned the text R, with synthesis ready: speak is
\* invoked once with R, the SpeakingLock is acquired before the invocation
\* and released after it. While the operation is pending the lock is held
\* or was taken before; once the operation is over, one invocation with R
\* has been made and the lock is released.
C8_OnceThenReleased ==
  /\ [](log.calls <= 1)
  /\ [][ (log'.calls > log.calls) => (isTTSLocked' /\ \E i \in OpIds :
            AutoOpPending(i)' /\ ops'[i].text = generatedResponse) ]_vars
  /\ []( ( /\ Truthy(generatedResponse) /\ log.calls >= 1
           /\ ~isSpeaking /\ \A i \in OpIds : ~ops[i].live )
         => ~isTTSLocked )

\* C9: when the engine has finished speaking the utterance of the pending
\* response, whose speech had started, the hook reports completion
\* (isSpeaking false, without a stop call) and the clear-after-speaking timer
\* (the grace delay after which generatedResponse is cleared and the flags
\* are reset) is armed.
C9_CompletionReported ==
  [][ ( /\ synthQueue # << >> /\ Head(synthQueue).kind = "utt"
        /\ AutoOpPending(Head(synthQueue).op)
        /\ ops[Head(synthQueue).op].hasStarted
        /\ ops[Head(synthQueue).op].text = generatedResponse
        /\ EngineEnd )
      => (~isSpeaking' /\ clearTimer'.armed) ]_vars

\* C10: the post-speech cleanup never clears generatedResponse for a speak
\* attempt that did not genuinely start: while ttsActuallyStarted is false a
\* pending response is removed only by Clear or by the start of a new
\* generation.
C10_PreservedUnlessStarted ==
  [][ ( /\ Truthy(generatedResponse) /\ ~ttsActuallyStarted
        /\ generatedResponse' # generatedResponse )
      => (ClearClick \/ genCount' = genCount + 1) ]_vars

\* the attempt for the pending response is over, it is marked spoken and
\* speech did not genuinely start: the response is still there
C10_Witness ==
  /\ NonBlank(generatedResponse) /\ log.autoCalls >= 1
  /\ ~isSpeaking /\ hasSpokenResponse /\ ~ttsActuallyStarted
  /\ \A i \in OpIds : ~ops[i].live

\* The attempt to speak the pending response is over, one way or another:
\* speak was invoked for it, no operation is alive, the engine holds nothing
\* and no auto-speak timer is armed.
TurnOver ==
  /\ Truthy(generatedResponse) /\ log.autoCalls >= 1
  /\ synthQueue = << >> /\ \A i \in OpIds : ~ops[i].live
  /\ ~speakTimer.armed

\* C11: a Turn is cleared once its response has been spoken or abandoned,
\* without a manual Clear, so that a later recording with a non-empty
\* transcript starts a new generation: when the attempt for the response is
\* over (nobody stopped it) and a recording started after it is on with a
\* non-empty transcript, the timer that clears the response is armed or the
\* debounce timer of the next generation is.
C11_TurnCleared ==
  ( /\ TurnOver /\ ~log.stopped
    /\ recog = "active" /\ isRecording /\ Len(Trim(transcription)) > 0
    /\ ~isGenerating )
  => (clearTimer.armed \/ debounceTimer.armed)

\* C12: a generation is started automatically only by the debounce timer,
\* and only when the transcript is non-empty, no final segment has arrived
\* since the timer was armed (the transcript is the one the timer captured),
\* no generation is in flight and no response is pending; a timer that is
\* armed was armed for the transcript as it is now, so every new final
\* segment has restarted the quiet period.
C12_QuietPeriod ==
  /\ [][ (genCount' > genCount)
         => ( /\ debounceTimer.armed /\ debounceTimer.text = transcription
              /\ Len(Trim(transcription)) > 0
              /\ ~isGenerating /\ ~Truthy(generatedResponse) ) ]_vars
  /\ [](debounceTimer.armed
          => ( /\ debounceTimer.text = transcription
               /\ isRecording /\ Len(Trim(transcription)) > 0
               /\ ~isGenerating /\ ~Truthy(generatedResponse) ))

\* a generation was started by a timer that a second final segment had
\* restarted
C12_Witness ==
  isGenerating /\ requests = 1 /\ transcription = <<"a", " ", " ">>

\* C13: at most one reasoning request is in flight at any time: a generation
\* is never started while another one is pending, whether it is triggered by
\* the debounce timer, by a final-transcript event, by the manual send
\* control, or after recording is restarted during a generation.
C13_OneRequest == requests <= 1
\* The auto-speak timer callback reaches speak(generatedResponse) in this step
AutoSpeakInvokes == AutoSpeakTimer /\ autoSpeakAttempts' = autoSpeakAttempts + 1

\* C14: whenever the auto-speak timer callback invokes speak, at that moment
\* the synthesis session is ready, the hook reports nothing speaking, the
\* response is non-empty and is the one the timer was armed for, the response
\* is not marked spoken and the speaking lock is free.
C14_SpeakOnlyWhenClear ==
  [][ AutoSpeakInvokes
      => ( /\ isInitialized /\ ~isSpeaking
           /\ NonBlank(generatedResponse) /\ speakTimer.text = generatedResponse
           /\ ~hasSpokenResponse /\ ~isTTSLocked ) ]_vars

C14_Witness ==
  /\ log.autoCalls >= 1 /\ hasSpokenResponse /\ isTTSLocked /\ isSpeaking
  /\ autoSpeakAttempts >= 1 /\ NonBlank(generatedResponse)

\* The text of a sequence of segments, each followed by one space
RECURSIVE Spaced(_)
Spaced(segs) ==
  IF segs = << >> THEN Empty
  ELSE (Head(segs) \o <<" ">>) \o Spaced(Tail(segs))

\* C15: the transcript is the concatenation, in arrival order, of exactly the
\* finalized segments of the recognition results, each followed by one space
\* (interim text never enters it), and after every result event the interim
\* segment is the interim text of that event alone (heard.interim is the
\* interim text of the latest event, emptied where the session ends or the
\* texts are cleared).
C15_TranscriptOfFinals ==
  /\ transcription = Spaced(heard.finals)
  /\ interimTranscript = heard.interim

C15_Witness ==
  /\ heard.finals = << <<"a">>, Empty >> /\ transcription = <<"a", " ", " ">>
  /\ heard.interim = <<"a">> /\ interimTranscript = <<"a">>

\* C16: a press of the start control that starts recording (Idle to
\* Recording) empties the transcript of the previous turn (a transcript that
\* holds speech, after a reasoning request was sent) and leaves a
\* generatedResponse that is pending and not yet spoken as it is.
C16_StartClearsTranscript ==
  [][ ( /\ StartRecordingClick /\ ~isRecording /\ recog' = "starting"
        /\ Len(Trim(transcription)) > 0 /\ genCount > 0 )
      => ( /\ transcription' = Empty
           /\ (Truthy(generatedResponse) /\ ~hasSpokenResponse)
                 => generatedResponse' = generatedResponse ) ]_vars

C18_FallbackMonotone == [][useFallback => useFallback']_vars

C18_Witness ==
  /\ useFallback /\ ~isInitialized /\ initLog.foreign = MaxForeign
  /\ initLog.idle >= 1 /\ initLog.inits >= 2

\* C19: a call of initialize while the hook is initialized is a no-op: no INIT
\* is posted, no timeout is armed, and isLoading, isInitialized, useFallback
\* and the error are left as they are.
C19_InitializeWhenReady ==
  [][ (HookInitialize /\ isInitialized)
      => UNCHANGED << toWorker, initTimeouts, isLoading, isInitialized,
                      useFallback, ttsError >> ]_vars

C19_Witness ==
  /\ initLog.idle >= 1 /\ isInitialized /\ ~isLoading
  /\ toWorker = << >> /\ initTimeouts = 0

\* C20: however many INIT messages are posted (autoInit, initialize), and
\* whichever of the worker's READY and the initialization timeout comes
\* first, READY with the fallback flag is delivered to the hook at most once
\* (no message of another worker build is involved), and when everything has
\* been delivered it was delivered once and the hook is in fallback mode.
C20_ReadyOnce ==
  initLog.foreign = 0
  => /\ initLog.readys <= 1
     /\ (initLog.inits >= 1 /\ toWorker = << >> /\ toHook = << >> /\ initTimeouts = 0)
          => (useFallback /\ initLog.readys = 1)

\* SPEAK messages in the queue to the worker
Speaks(q) == Cardinality({k \in 1..Len(q) : q[k].type = "SPEAK"})

\* A speakWithBrowser operation is begun in this step on behalf of `by`
Begins(by) == \E i \in OpIds : ~ops[i].live /\ ops'[i].live /\ ops'[i].by = by

\* C21: once useFallback is set, no step posts SPEAK to the worker and a speak
\* call that is accepted begins the synthesis on the main thread; a
\* SPEAK_REQUEST with the fallback flag begins a main-thread synthesis and a
\* STOP_REQUEST with the flag cancels the engine on the main thread.
C21_FallbackOnMainThread ==
  [][ /\ useFallback => Speaks(toWorker') <= Speaks(toWorker)
      /\ (HookSpeak /\ useFallback /\ isInitialized /\ ~isSpeaking) => Begins("client")
      /\ (HookMessage /\ Head(toHook) = Msg("SPEAK_REQUEST", <<"a">>, TRUE))
            => Begins("worker")
      /\ StopRequestMessage
            => (synthQueue' = << >> /\ ~synthSpeaking' /\ ~isSpeaking') ]_vars

C21_Witness ==
  /\ useFallback /\ Speaks(toWorker) = 0
  /\ \E i \in OpIds : ops[i].live /\ ops[i].by = "client" /\ ops[i].spoken

\* A step in which the hook handles a failed initialization: the timeout
\* elapses, READY with the fallback flag arrives, or posting INIT throws
InitFailureHandled ==
  \/ InitTimeout
  \/ HookMessage /\ Head(toHook) = Msg("READY", Empty, TRUE)
  \/ HookInitialize /\ ~isInitialized /\ initLog'.inits = initLog.inits

\* C22: every initialization failure (no READY before the timeout, the
\* worker's fallback READY, an exception while INIT is posted) leaves the
\* hook initialized, in fallback mode and not loading, and none of them sets
\* the error slot of the hook.
C22_InitFailureSwallowed ==
  [][ InitFailureHandled
      => ( /\ isInitialized' /\ useFallback' /\ ~isLoading'
           /\ ttsError' \in {ttsError, "null"} ) ]_vars

\* C23: a speak call while the hook is not initialized (and reports nothing
\* speaking) is rejected with the not-initialized error: no operation is
\* begun, nothing is handed to the engine, no SPEAK is posted, isSpeaking
\* stays false and the lock is left as it is.
C23_RejectedWhenNotReady ==
  [][ (HookSpeak /\ ~isInitialized /\ ~isSpeaking)
      => ( /\ ttsError' = "TTS not initialized"
           /\ UNCHANGED << ops, synthQueue, synthSpeaking, toWorker, isSpeaking,
                           isTTSLocked >> ) ]_vars

C23_Witness ==
  /\ ttsError = "TTS not initialized" /\ ~isInitialized /\ ~isSpeaking
  /\ clicks >= 1 /\ Speaks(toWorker) = 0 /\ \A i \in OpIds : ~ops[i].live

\* C24: in fallback mode a speakWithBrowser operation whose speech has
\* actually started is settled: its promise resolved at the onset.
C24_ResolvedAtOnset ==
  \A i \in OpIds : (ops[i].live /\ ops[i].hasStarted) => ops[i].settled = "resolved"

\* C25: in fallback mode an operation whose utterance showed no onset within
\* the onset timeout is retried once through the primer; when its final
\* timeout expires and speech still has not started, the operation rejects
\* and isSpeaking is false.
C25_RejectsAfterRetry ==
  [][ \A i \in OpIds :
        ( /\ OpFinalTimeout /\ ops[i].finalTimer /\ ~ops'[i].finalTimer
          /\ ~ops[i].hasStarted /\ ~ops[i].hasEnded )
        => (ops'[i].settled = "rejected" /\ ~isSpeaking') ]_vars

\* A step in which a synthesis fails otherwise than by an interruption: the
\* final timeout of an operation expires without onset, speechSynthesis.speak
\* throws, or the worker reports ERROR. (window.speechSynthesis exists.)
SynthesisFails ==
  \/ \E i \in OpIds : /\ OpFinalTimeout /\ ops[i].finalTimer /\ ~ops'[i].finalTimer
                      /\ ~ops[i].hasStarted /\ ~ops[i].hasEnded
  \/ \E i \in OpIds : ops[i].settled = "pending" /\ ops'[i].settled = "rejected"
  \/ HookMessage /\ Head(toHook).type = "ERROR"

\* C26: a synthesis failure on an initialized hook that is not an intentional
\* interruption or cancellation sets the error slot of the hook.
C26_FailureSurfaced ==
  [][ (isInitialized /\ SynthesisFails) => ttsError' # "null" ]_vars

\* C27: a rejection classified as "interrupted" or "canceled" does not set
\* the error slot, for an operation begun by speak as for one begun by a
\* SPEAK_REQUEST; and an intentional stop (stop, STOP_REQUEST) that cancels
\* what the engine holds leaves the error slot empty.
C27_InterruptionSuppressed ==
  [][ /\ (\E i \in OpIds : ops[i].settled = "pending" /\ ops'[i].settled = "interrupted")
           => ttsError' = ttsError
      /\ ((HookStop \/ StopRequestMessage) /\ SynthBusy(S)) => ttsError' = "null" ]_vars

C27_Witness ==
  /\ ttsError = "null" /\ ~isSpeaking
  /\ \E i \in OpIds : ops[i].live /\ ops[i].by = "worker" /\ ops[i].settled = "interrupted"

\* stop() is called by the client of the hook while nothing is speaking: the
\* hook reports no speech and the engine holds nothing
IdleStop == HookStop /\ ~isSpeaking /\ ~SynthBusy(S)

\* What a stop of an idle hook leaves alone according to both readings: the
\* speaking flag, the lock, the spoken/started flags, the turn, the engine,
\* the operations (up to the record that stop() was called for them, which is
\* history and no state of the program) and the queues of the worker
IdleStopFrame ==
  /\ UNCHANGED << isSpeaking, isTTSLocked, hasSpokenResponse, ttsActuallyStarted,
                  hookStarted, hookSpoken, transcription, interimTranscript,
                  generatedResponse, isGenerating, isInitialized, isLoading, useFallback,
                  synthQueue, synthSpeaking, toWorker, toHook >>
  /\ \A i \in OpIds : [ops'[i] EXCEPT !.stopped = FALSE] = [ops[i] EXCEPT !.stopped = FALSE]

\* C28 as stated: a stop while nothing is speaking changes no state, the
\* error slot included.
C28_IdleStopChangesNothing ==
  [][ IdleStop => (IdleStopFrame /\ ttsError' = ttsError) ]_vars

\* C28, amended: a stop while nothing is speaking changes nothing but the
\* error slot, which it empties.
C28_IdleStopClearsError ==
  [][ IdleStop => (IdleStopFrame /\ ttsError' = "null") ]_vars

C28_Witness ==
  /\ clicks = 1 /\ log.stopped /\ ~isSpeaking /\ ttsError = "null"
  /\ isInitialized /\ useFallback /\ \A i \in OpIds : ~ops[i].live

\* C29: after stop or clear nothing of the cancelled operation is started
\* later: once stop() was called for an operation under way, no step (the
\* rest of startSpeech, the onset timeout, the primer, the final timeout)
\* hands an utterance of it to the engine, and its speech does not start.
C29_CancelledStaysCancelled ==
  [][ \A i \in OpIds :
        (ops[i].live /\ ops[i].stopped /\ ops'[i].stopped)
        => ( /\ InQueue(S, i)' => InQueue(S, i)
             /\ ops'[i].hasStarted => ops[i].hasStarted ) ]_vars

\* C30: the Stop Speaking control cancels speaking and clears the speaking
\* lock and the speaking flag whatever the state: after it isSpeaking is
\* false and isTTSLocked is false.
C30_ForceStopClearsLock ==
  [][ StopSpeakingClick => (~isSpeaking' /\ ~isTTSLocked') ]_vars

\* C31: Retry TTS, used while a response is pending, resets autoSpeakAttempts
\* to 0 and releases the lock, and its timer then invokes the synthesis of
\* the pending response again (one more invocation is made for it), also when
\* the previous attempt left isSpeaking true or did not start. (The hook was
\* initialized when the control was used.)
C31_RetryReinvokes ==
  [][ /\ RetryClick => (autoSpeakAttempts' = 0 /\ ~isTTSLocked')
      /\ ( /\ RetryTimer /\ Head(retryTimers).init
           /\ Head(retryTimers).text = generatedResponse )
         => log'.calls = log.calls + 1 ]_vars

GeminiFailure ==
  /\ requests > 0
  /\ \E ok \in BOOLEAN, text \in GeminiTexts :
       /\ ~ok => text = Empty
       /\ ~(ok /\ Truthy(text))
       /\ Commit(geminiResponded(S0, ok, text))

\* C33: when the reasoning call fails the error slot is set, isGenerating is
\* false again, generatedResponse stays empty and speak is not invoked for
\* the Turn: the failure begins no synthesis and leaves no auto-speak timer
\* armed, and no auto-speak timer is ever armed while there is no response.
C33_FailureLeavesTurnEmpty ==
  /\ [][ GeminiFailure
         => ( /\ error' = "Failed to generate response" /\ ~isGenerating'
              /\ generatedResponse' = Empty /\ ~speakTimer'.armed
              /\ UNCHANGED << ops, toWorker, synthQueue, isSpeaking, log >> ) ]_vars
  /\ [](~Truthy(generatedResponse) => ~speakTimer.armed)

\* the first reasoning call has failed
C33_Witness ==
  /\ genCount = 1 /\ requests = 0 /\ error = "Failed to generate response"
  /\ ~isGenerating /\ generatedResponse = Empty /\ log.calls = 0
  /\ Len(Trim(transcription)) > 0

\* C34: on an error of the recognition stream, in whatever state it arrives
\* (before or after the start event, while a generation or a speech is under
\* way), the error is stored in the error slot of the component and
\* isRecording is false in the same step.
C34_RecognitionErrorSurfaced ==
  [][ RecognitionError
      => (error' = "Speech recognition error" /\ ~isRecording') ]_vars

\* the stream failed while it was recording: the end event has not come yet
C34_Witness ==
  /\ error = "Speech recognition error" /\ ~isRecording /\ recog = "stopping"
  /\ Len(Trim(transcription)) > 0

\* C35: when the recognition stream ends, spontaneously (the session was
\* active) or after a stop, isRecording becomes false and the interim segment
\* is emptied, while the transcript, generatedResponse, isGenerating, the
\* lock and the speaking state (isSpeaking, the spoken/started flags, the
\* operations and the engine) are left as they are.
C35_StreamEndFrame ==
  [][ RecognitionEnded
      => ( /\ ~isRecording' /\ interimTranscript' = Empty
           /\ UNCHANGED << transcription, generatedResponse, isGenerating, isTTSLocked,
                           isSpeaking, hasSpokenResponse, ttsActuallyStarted,
                           autoSpeakAttempts, ops, synthQueue, synthSpeaking,
                           speakTimer, requests >> ) ]_vars

\* the stream has ended while the response of its transcript was being spoken
C35_Witness ==
  /\ recog = "idle" /\ ~isRecording /\ interimTranscript = Empty
  /\ Len(Trim(transcription)) > 0 /\ NonBlank(generatedResponse)
  /\ isSpeaking /\ isTTSLocked

\* C36: once a speakWithBrowser operation was declared failed (its final
\* timeout fired: hasEnded is set and isSpeaking was set to false), a late
\* onset of its utterance does not set isSpeaking again: while the hook
\* reports nothing speaking, the step in which the engine starts the
\* utterance of such an operation leaves isSpeaking false.
C36_LateOnsetIgnored ==
  [][ \A i \in OpIds :
        ( /\ ops[i].live /\ ops[i].hasEnded /\ ~isSpeaking
          /\ EngineStart /\ Head(synthQueue) = [kind |-> "utt", op |-> i] )
        => ~isSpeaking' ]_vars

\* Clear was pressed while the one request in flight was pending and nothing
\* was recognized since: the transcript is empty although the generation is
\* still marked as under way (a request is only sent for a non-empty
\* transcript, and a start of recording, which also empties the transcript
\* in the earlier revision, resets isGenerating).
ClearedInFlight ==
  requests = 1 /\ isGenerating /\ transcription = Empty /\ generatedResponse = Empty

\* C37: the response of a request that was in flight when the user pressed
\* Clear does not come back into the cleared Turn: when it arrives it is not
\* stored in generatedResponse and no auto-speak timer is armed for it.
C37_LateResponseDropped ==
  [][ (ClearedInFlight /\ requests' = 0)
      => (generatedResponse' = Empty /\ ~speakTimer'.armed) ]_vars

\* C38: no generation request is issued automatically while isRecording is
\* false: a request is sent only in a step that starts with isRecording
\* true, a debounce timer is armed only while isRecording is true, and the
\* step in which recording stops or the stream ends leaves no debounce timer
\* armed.
C38_NoRequestWhenStopped ==
  /\ [][ (genCount' > genCount) => isRecording ]_vars
  /\ [](debounceTimer.armed => isRecording)
  /\ [][ (isRecording /\ ~isRecording') => ~debounceTimer'.armed ]_vars

\* the stream has ended (without an error) before the transcript it
\* finalized was sent: no timer is left, nothing was sent
C38_Witness ==
  /\ recog = "idle" /\ ~isRecording /\ error = "" /\ apiKey /\ isInitialized
  /\ Len(Trim(transcription)) > 0 /\ ~isGenerating /\ generatedResponse = Empty
  /\ genCount = 0 /\ requests = 0 /\ ~debounceTimer.armed

\* Messages of one type in a queue
Count(q, type) == Cardinality({k \in 1..Len(q) : q[k].type = type})

\* The worker handles a SPEAK message in this step
WorkerSpeak == WorkerTask /\ Head(toWorker).type = "SPEAK"

\* A text with a character that is not white space
HasSpeech(text) == \E k \in 1..Len(text) : text[k] # " "

\* C39: the worker answers a SPEAK with one SPEAK_REQUEST (and no ERROR) if
\* it is ready (INIT was processed) and the text is not blank; otherwise it
\* answers with exactly one ERROR and no SPEAK_REQUEST. Nothing else is
\* posted for the message, and no other message is answered by a
\* SPEAK_REQUEST.
C39_SpeakAnswered ==
  [][ /\ WorkerSpeak
         => /\ Len(toHook') = Len(toHook) + 1
            /\ IF wIsReady /\ HasSpeech(Head(toWorker).text)
                 THEN /\ Count(toHook', "SPEAK_REQUEST") = Count(toHook, "SPEAK_REQUEST") + 1
                      /\ Count(toHook', "ERROR") = Count(toHook, "ERROR")
                 ELSE /\ Count(toHook', "ERROR") = Count(toHook, "ERROR") + 1
                      /\ Count(toHook', "SPEAK_REQUEST") = Count(toHook, "SPEAK_REQUEST")
      /\ (Count(toHook', "SPEAK_REQUEST") > Count(toHook, "SPEAK_REQUEST")) => WorkerSpeak ]_vars

\* a SPEAK with a text was answered by ERROR before INIT was processed, and
\* an INIT is still waiting behind it
C39_Witness ==
  /\ ~wIsReady /\ toHook = << Msg("ERROR", Empty, FALSE) >>
  /\ toWorker = << [type |-> "INIT", text |-> Empty] >>

\* C40: the whisper worker posts 'ready' only when the runtime is initialized
\* and the model data of the load was fetched, whichever came first, and at
\* most once for an accepted load; a load that arrives while a load is in
\* progress is ignored: it changes nothing of the worker.
C40_ReadyAfterBoth ==
  [][ /\ (whisper'.readys > whisper.readys)
         => ( /\ whisper'.readys = whisper.readys + 1
              /\ whisper'.isWasmReady /\ whisper'.fetched /\ ~whisper.posted
              /\ whisper'.isReady /\ ~whisper'.isModelLoading )
      /\ (whisper'.accepted > whisper.accepted) => ~whisper.isModelLoading
      /\ (whisper'.ignored > whisper.ignored)
         => whisper' = [whisper EXCEPT !.ignored = @ + 1] ]_vars

\* both orders have happened: a first load was fetched before the runtime
\* was initialized, a second one after it; each got its 'ready', and a load
\* that came in between was ignored
C40_Witness ==
  /\ whisper.accepted = 2 /\ whisper.readys = 2 /\ whisper.ignored >= 1
  /\ whisper.isReady /\ whisper.wasmTimers = 1

====
